---------------------------- MODULE Spec2Model ----------------------------
(***************************************************************************)
(* Model of the question search engine of src/main.go: cleanText,          *)
(* calculateRelevance, getQuestionCategories and searchQuestions.          *)
(*                                                                         *)
(* A Go string is modelled as the sequence of its Unicode code points (the *)
(* strings of the model are valid UTF-8).  The two places where the code   *)
(* works on bytes, len(s) and s[i], go through the UTF-8 encoding          *)
(* (ByteLen, ByteAt).    A float64 relevance r is modelled by the integer  *)
(* floor(r * 10^6), which is injective and order preserving on the values  *)
(* the code can produce within the bounds (0.7999999999999999 is 799999,   *)
(* 0.8 is 800000).                                                         *)
(***************************************************************************)
EXTENDS Integers, Sequences, FiniteSets, TLC

VARIABLES
    allQuestions,   \* readFile's deduplicated records, as a bag of QuestionItem
    config,         \* the SearchConfig of the last searchQuestions call
    outcome,        \* "idle", "returned", "error" (err != nil) or "panic"
    results,        \* the []Result of the last call (<<>> is nil)
    scored,         \* number of calculateRelevance calls of the last call
    question,       \* calculateRelevance: first argument
    keyword,        \* calculateRelevance: second argument
    relevance,      \* calculateRelevance: returned value
    text,           \* cleanText: argument
    cleaned,        \* cleanText(text)
    cleanedTwice,   \* cleanText(cleanText(text))
    pc              \* position of the scorer / normalizer driver

vars == <<allQuestions, config, outcome, results, scored,
          question, keyword, relevance, text, cleaned, cleanedTwice, pc>>

searchVars == <<allQuestions, config, outcome, results, scored>>
scoreVars  == <<question, keyword, relevance>>
cleanVars  == <<text, cleaned, cleanedTwice>>

----------------------------------------------------------------------------
(* Bounds *)

MaxRecords == 3        \* records of a varied record set
MaxLarge == 22         \* records of a large record set (beyond the cap)
MaxQuestionLen == 3    \* code points of calculateRelevance's question
MaxKeywordLen == 3     \* code points of calculateRelevance's keyword
MaxTextLen == 6        \* code points of cleanText's argument

----------------------------------------------------------------------------
(* Strings *)

Strings(S, n) == UNION {[1..k -> S] : k \in 0..n}

Min(a, b) == IF a < b THEN a ELSE b

EmptyBag == [x \in {} |-> 0]

\* The UTF-8 encoding of code point c, as a sequence of bytes.
EncodeRune(c) ==
    IF c < 128 THEN <<c>>
    ELSE IF c < 2048 THEN <<192 + (c \div 64), 128 + (c % 64)>>
    ELSE IF c < 65536
         THEN <<224 + (c \div 4096), 128 + ((c \div 64) % 64), 128 + (c % 64)>>
    ELSE <<240 + (c \div 262144), 128 + ((c \div 4096) % 64),
           128 + ((c \div 64) % 64), 128 + (c % 64)>>

\* The bytes of string s.
RECURSIVE UTF8(_)
UTF8(s) == IF s = <<>> THEN <<>> ELSE EncodeRune(s[1]) \o UTF8(Tail(s))

\* len(s): the number of bytes of s.
ByteLen(s) == Len(UTF8(s))

\* s[i]: the byte of s at byte index i (0-based).
ByteAt(s, i) == UTF8(s)[i + 1]

\* unicode.IsSpace: the White_Space property.
IsSpace(c) ==
    c \in {9, 10, 11, 12, 13, 32, 133, 160, 5760, 8232, 8233, 8239, 8287, 12288}
          \cup (8192..8202)

\* unicode.IsPunct: category P.  Complete below U+0100; above it, the General
\* Punctuation, CJK and fullwidth code points a question text uses.
IsPunct(c) ==
    c \in {33, 34, 35, 37, 38, 39, 40, 41, 42, 44, 45, 46, 47, 58, 59, 63, 64,
           91, 92, 93, 95, 123, 125, 161, 167, 171, 182, 183, 187, 191,
           12289, 12290, 12291, 65281, 65282, 65283, 65292, 65306, 65307, 65311}
          \cup (8208..8231)

\* unicode.ToLower of one code point (ASCII and Latin-1 letters; the other code
\* points of the model have no lower case mapping).
LowerRune(c) ==
    IF c \in 65..90 THEN c + 32
    ELSE IF c \in 192..222 /\ c # 215 THEN c + 32
    ELSE c

\* strings.ToLower
ToLower(s) == [i \in 1..Len(s) |-> LowerRune(s[i])]

\* strings.HasPrefix
HasPrefix(s, p) == Len(p) <= Len(s) /\ SubSeq(s, 1, Len(p)) = p

\* p occurs in s starting at code point position i (1-based).
OccursAt(s, p, i) == i + Len(p) - 1 <= Len(s) /\ SubSeq(s, i, i + Len(p) - 1) = p

\* strings.Contains
Contains(s, p) == \E i \in 1..(Len(s) + 1) : OccursAt(s, p, i)

\* Code point position (1-based) of the first occurrence of p in s, 0 if none.
FirstOccurrence(s, p) ==
    IF Contains(s, p)
    THEN CHOOSE i \in 1..(Len(s) + 1) :
             OccursAt(s, p, i) /\ \A j \in 1..(i - 1) : ~OccursAt(s, p, j)
    ELSE 0

\* strings.Index: the byte index of the first occurrence of p in s, -1 if none.
Index(s, p) ==
    IF Contains(s, p) THEN ByteLen(SubSeq(s, 1, FirstOccurrence(s, p) - 1)) ELSE -1

\* strings.ReplaceAll(s, old, ""): the non-overlapping occurrences of old,
\* found from the left in one pass, are removed.
RECURSIVE RemoveAll(_, _)
RemoveAll(s, old) ==
    IF Len(s) < Len(old) THEN s
    ELSE IF HasPrefix(s, old) THEN RemoveAll(SubSeq(s, Len(old) + 1, Len(s)), old)
    ELSE <<s[1]>> \o RemoveAll(Tail(s), old)

\* strings.TrimSpace
TrimSpace(s) ==
    LET keep == {i \in 1..Len(s) : ~IsSpace(s[i])}
    IN  IF keep = {} THEN <<>>
        ELSE LET lo == CHOOSE i \in keep : \A j \in keep : i <= j
                 hi == CHOOSE i \in keep : \A j \in keep : j <= i
             IN  SubSeq(s, lo, hi)

\* strings.Fields: the maximal runs of non-space code points, in order.
RECURSIVE Fields(_)
Fields(s) ==
    IF s = <<>> THEN <<>>
    ELSE IF IsSpace(s[1]) THEN Fields(Tail(s))
    ELSE LET sp == {i \in 1..Len(s) : IsSpace(s[i])}
             n  == IF sp = {} THEN Len(s)
                   ELSE (CHOOSE i \in sp : \A j \in sp : i <= j) - 1
         IN  <<SubSeq(s, 1, n)>> \o Fields(SubSeq(s, n + 1, Len(s)))

----------------------------------------------------------------------------
(* cleanText *)

NoiseP      == <<60, 112, 62>>                    \* "<p>"
NoisePEnd   == <<60, 47, 112, 62>>                \* "</p>"
NoiseLdquo  == <<38, 108, 100, 113, 117, 111>>    \* "&ldquo"
NoiseRdquo  == <<38, 114, 100, 113, 117, 111>>    \* "&rdquo"
NoiseGe     == <<38, 103, 101>>                   \* "&ge"
NoiseRsquo  == <<38, 114, 115, 113, 117, 111>>    \* "&rsquo"
NoiseNbsp   == <<38, 110, 98, 115, 112>>          \* "&nbsp"

NoiseSubstrings ==
    {NoiseP, NoisePEnd, NoiseLdquo, NoiseRdquo, NoiseGe, NoiseRsquo, NoiseNbsp}

cleanText(t) ==
    LET t1 == RemoveAll(t, NoiseP)
        t2 == RemoveAll(t1, NoisePEnd)
        t3 == RemoveAll(t2, NoiseLdquo)
        t4 == RemoveAll(t3, NoiseRdquo)
        t5 == RemoveAll(t4, NoiseGe)
        t6 == RemoveAll(t5, NoiseRsquo)
        t7 == RemoveAll(t6, NoiseNbsp)
    IN  TrimSpace(t7)

----------------------------------------------------------------------------
(* calculateRelevance *)

\* float64(1.0*0.7 + exactWordMatches*0.1) in units of 10^-6, rounded down:
\* 0.7 + 0.1 is 0.7999999999999999 and 0.7 + 0.2 is 0.8999999999999999 in
\* float64; 0.7 + 3*0.1 is 1.0 and 0.7 + 4*0.1 is 1.1.
TokenScore(exactWordMatches) ==
    IF exactWordMatches \in {1, 2}
    THEN 700000 + exactWordMatches * 100000 - 1
    ELSE 700000 + exactWordMatches * 100000

\* The inner loop over questionWords: the first question word that equals kw or
\* contains it (0 if none).
FirstMatchingWord(questionWords, kw) ==
    LET hit == {i \in 1..Len(questionWords) : Contains(questionWords[i], kw)}
    IN  IF hit = {} THEN 0 ELSE CHOOSE i \in hit : \A j \in hit : i <= j

\* Variant of tokenRelevance: a keyword word that is not found does not abort
\* the loop; the score is computed from the words that were found.
tokenRelevanceNoAbort(questionLower, keywordLower) ==
    LET keywordWords  == Fields(keywordLower)
        questionWords == Fields(questionLower)
        first(i)      == FirstMatchingWord(questionWords, keywordWords[i])
        found         == {i \in 1..Len(keywordWords) : first(i) > 0}
        exactWordMatches ==
            Cardinality({i \in found : questionWords[first(i)] = keywordWords[i]})
    IN  IF Len(keywordWords) = 0 THEN 0
        ELSE (Cardinality(found) * 700000) \div Len(keywordWords)
             + exactWordMatches * 100000

\* Tier 4 of the code (token matching).  When every keyword word is found,
\* matchedWords + exactWordMatches = len(keywordWords) and baseScore is 1.0.
tokenRelevance(questionLower, keywordLower) ==
    LET keywordWords  == Fields(keywordLower)
        questionWords == Fields(questionLower)
        first(i)      == FirstMatchingWord(questionWords, keywordWords[i])
        exactWordMatches ==
            Cardinality({i \in 1..Len(keywordWords) :
                first(i) > 0 /\ questionWords[first(i)] = keywordWords[i]})
    IN  IF Len(keywordWords) = 0 THEN 0
        ELSE IF \E i \in 1..Len(keywordWords) : first(i) = 0 THEN 300000
        ELSE TokenScore(exactWordMatches)

calculateRelevance(q, k) ==
    IF k = <<>> THEN 1000000
    ELSE LET questionLower == ToLower(q)
             keywordLower  == ToLower(k)
         IN  IF questionLower = keywordLower THEN 1000000
             ELSE IF HasPrefix(questionLower, keywordLower) THEN 950000
             ELSE IF Contains(questionLower, keywordLower)
                  THEN LET index == Index(questionLower, keywordLower)
                       IN  IF index > 0
                              /\ LET prevChar == ByteAt(questionLower, index - 1)
                                 IN  IsSpace(prevChar) \/ IsPunct(prevChar)
                           THEN 900000
                           ELSE 800000
             ELSE tokenRelevance(questionLower, keywordLower)

----------------------------------------------------------------------------
(* Scorer specification: calculateRelevance on bounded arguments *)

\* 'a', 'B', ' ', ',', U+FF0C (fullwidth comma), U+00E0 (a with grave)
QuestionChars == {97, 66, 32, 44, 65292, 224}
KeywordChars  == {97, 66, 32}

IdleSearch ==
    /\ allQuestions = EmptyBag
    /\ config = [Keyword |-> <<>>, Type |-> ""]
    /\ outcome = "idle"
    /\ results = <<>>
    /\ scored = 0

IdleScore == question = <<>> /\ keyword = <<>> /\ relevance = 0
IdleClean == text = <<>> /\ cleaned = <<>> /\ cleanedTwice = <<>>

InitScore ==
    /\ IdleSearch /\ IdleClean
    /\ question \in Strings(QuestionChars, MaxQuestionLen)
    /\ keyword \in Strings(KeywordChars, MaxKeywordLen)
    /\ relevance = 0
    /\ pc = "start"

Score ==
    /\ pc = "start"
    /\ relevance' = calculateRelevance(question, keyword)
    /\ pc' = "scored"
    /\ UNCHANGED <<searchVars, cleanVars, question, keyword>>

NextScore == Score

SpecScore == InitScore /\ [][NextScore]_vars

----------------------------------------------------------------------------
(* Normalizer specification: cleanText applied once and twice *)

\* '<', 'p', '>', '/', ' '
TextChars == {60, 112, 62, 47, 32}

InitClean ==
    /\ IdleSearch /\ IdleScore
    /\ text \in Strings(TextChars, MaxTextLen)
    /\ cleaned = <<>>
    /\ cleanedTwice = <<>>
    /\ pc = "start"

CleanOnce ==
    /\ pc = "start"
    /\ cleaned' = cleanText(text)
    /\ pc' = "once"
    /\ UNCHANGED <<searchVars, scoreVars, text, cleanedTwice>>

CleanAgain ==
    /\ pc = "once"
    /\ cleanedTwice' = cleanText(cleaned)
    /\ pc' = "twice"
    /\ UNCHANGED <<searchVars, scoreVars, text, cleaned>>

NextClean == CleanOnce \/ CleanAgain

SpecClean == InitClean /\ [][NextClean]_vars

----------------------------------------------------------------------------
(* Bags: a record set or a candidate set whose order is not fixed *)

RECURSIVE SumOver(_, _)
SumOver(S, B) ==
    IF S = {} THEN 0
    ELSE LET x == CHOOSE y \in S : TRUE IN B[x] + SumOver(S \ {x}, B)

BagSize(B) == SumOver(DOMAIN B, B)

BagCount(B, x) == IF x \in DOMAIN B THEN B[x] ELSE 0

BagRemove(B, x) ==
    IF B[x] = 1 THEN [y \in DOMAIN B \ {x} |-> B[y]] ELSE [B EXCEPT ![x] = @ - 1]

BagOfSeq(s) ==
    [x \in {s[i] : i \in 1..Len(s)} |-> Cardinality({i \in 1..Len(s) : s[i] = x})]

\* The bag {f(x) : x in B}, given as the set of images and the preimage of each.
BagRestrict(B, S) == [x \in (DOMAIN B) \cap S |-> B[x]]

----------------------------------------------------------------------------
(* getQuestionTypeName, getQuestionCategories *)

RecognizedTypes == {"single_choice", "choice", "determine"}

\* The labels stand for the Chinese display names of the source.
getQuestionTypeName(qType) ==
    CASE qType = "single_choice" -> "danxuanti"
      [] qType = "choice"        -> "duoxuanti"
      [] qType = "determine"     -> "panduanti"
      [] OTHER                   -> qType

\* The map from type name to category.  A category's Questions are the records
\* of that type; their order is the iteration order of the allQuestions map,
\* which Go leaves unspecified and varies from one iteration to the next, so
\* Questions is a bag here and each order of it is a possible slice.
getQuestionCategories ==
    [typeName \in {getQuestionTypeName(q.Type) : q \in DOMAIN allQuestions} |->
        [TypeName  |-> typeName,
         Questions |-> BagRestrict(allQuestions,
                          {q \in DOMAIN allQuestions :
                              getQuestionTypeName(q.Type) = typeName})]]

----------------------------------------------------------------------------
(* searchQuestions *)

MaxResults == 20
Threshold == 500000     \* 0.5

\* fmt.Sprintf(" %s\n", s)
DisplayTitle(s) == <<32>> \o s \o <<10>>

\* The Result built from one question and scored against kw.  (Info and
\* Operator, display lines no decision reads, are left out.)
resultOf(q, cfg) ==
    LET title == DisplayTitle(cleanText(q.Title))
    IN  [Title     |-> title,
         Type      |-> getQuestionTypeName(cfg.Type),
         Relevance |-> calculateRelevance(title, cfg.Keyword)]

\* allQuestions after the two loops: the scored results of a category, as a bag.
scoredResults(Questions, cfg) ==
    LET image == {resultOf(q, cfg) : q \in DOMAIN Questions}
    IN  [r \in image |->
            SumOver({q \in DOMAIN Questions : resultOf(q, cfg) = r}, Questions)]

\* Variant of less: on a relevance tie the longer title first.
lessLongerFirst(a, b) ==
    IF a.Relevance = b.Relevance
    THEN ByteLen(a.Title) > ByteLen(b.Title)
    ELSE a.Relevance > b.Relevance

\* The less function handed to sort.Slice.
less(a, b) ==
    IF a.Relevance = b.Relevance
    THEN ByteLen(a.Title) < ByteLen(b.Title)
    ELSE a.Relevance > b.Relevance

\* sort.Slice is not stable and its input order is unspecified: every
\* arrangement of the candidates that is sorted by less is a possible output.
RECURSIVE sortSlice(_)
sortSlice(B) ==
    IF DOMAIN B = {} THEN {<<>>}
    ELSE LET firsts == {x \in DOMAIN B : \A y \in DOMAIN B : ~less(y, x)}
         IN  UNION {{<<x>> \o s : s \in sortSlice(BagRemove(B, x))} : x \in firsts}

aboveThreshold(q) == q.Relevance > Threshold

\* Variant of filterAndCap: keeps every result of relevance greater than 0.
filterAboveZeroAndCap(sorted) ==
    LET filtered == SelectSeq(sorted, LAMBDA q : q.Relevance > 0)
    IN  IF Len(filtered) > MaxResults THEN SubSeq(filtered, 1, MaxResults) ELSE filtered

\* The keyword branch: filter, then keep the first MaxResults.
filterAndCap(sorted) ==
    LET filtered == SelectSeq(sorted, aboveThreshold)
    IN  IF Len(filtered) > MaxResults THEN SubSeq(filtered, 1, MaxResults) ELSE filtered

\* Variant of selectCategory: the default case falls through to the
\* single-choice category instead of returning the error.
selectCategoryFallThrough(cfg) ==
    LET name == IF cfg.Type \in RecognizedTypes
                THEN getQuestionTypeName(cfg.Type)
                ELSE getQuestionTypeName("single_choice")
    IN  IF name \in DOMAIN getQuestionCategories
        THEN [kind |-> "found", Questions |-> getQuestionCategories[name].Questions]
        ELSE [kind |-> "nil", Questions |-> EmptyBag]

\* The switch on config.Type: the default case returns the error; a recognized
\* type whose name is no key of the map leaves the category pointer nil.
selectCategory(cfg) ==
    IF cfg.Type \notin RecognizedTypes
    THEN [kind |-> "invalid", Questions |-> EmptyBag]
    ELSE IF getQuestionTypeName(cfg.Type) \in DOMAIN getQuestionCategories
         THEN [kind      |-> "found",
               Questions |-> getQuestionCategories[getQuestionTypeName(cfg.Type)].Questions]
         ELSE [kind |-> "nil", Questions |-> EmptyBag]

searchQuestions(cfg) ==
    LET category == selectCategory(cfg)
    IN  /\ config' = cfg
        /\ IF category.kind = "invalid"
           THEN outcome' = "error" /\ results' = <<>> /\ scored' = 0
           ELSE IF category.kind = "nil"
           THEN \* category.Questions dereferences a nil pointer
                outcome' = "panic" /\ results' = <<>> /\ scored' = 0
           ELSE LET candidates == scoredResults(category.Questions, cfg)
                IN  /\ outcome' = "returned"
                    /\ scored' = BagSize(candidates)
                    /\ \E sorted \in sortSlice(candidates) :
                           results' = IF cfg.Keyword # <<>>
                                      THEN filterAndCap(sorted)
                                      ELSE sorted
        /\ UNCHANGED <<allQuestions, scoreVars, cleanVars, pc>>

----------------------------------------------------------------------------
(* Search specification *)

ItemTypes == {"single_choice", "determine"}
RequestTypes == {"single_choice", "choice", "determine", "essay"}

TitleAB   == <<97, 98>>                               \* "ab"
TitleBA   == <<98, 97>>                               \* "ba"
TitlePAB  == <<60, 112, 62, 97, 98, 60, 47, 112, 62>> \* "<p>ab</p>"
TitleABC  == <<97, 98, 32, 99>>                       \* "ab c"
TitleB_A  == <<98, 32, 97>>                           \* "b a"

RawTitles == {TitleAB, TitleBA, TitlePAB, TitleABC, TitleB_A}

\* "", "ab", "a", "a b"
Keywords == {<<>>, <<97, 98>>, <<97>>, <<97, 32, 98>>}

Items == [Type : ItemTypes, Title : RawTitles]

\* Up to MaxRecords records of any type and title.
VariedRecordSets == {BagOfSeq(s) : s \in Strings(Items, MaxRecords)}

\* Up to MaxLarge single-choice records over two titles of different length.
LargeItem(t) == [Type |-> "single_choice", Title |-> t]
LargeRecordSets ==
    {[q \in {LargeItem(t) : t \in {u \in {TitleAB, TitleB_A} : n[u] > 0}}
         |-> n[q.Title]] :
        n \in {m \in [{TitleAB, TitleB_A} -> 0..MaxLarge] :
                  m[TitleAB] + m[TitleB_A] <= MaxLarge}}

Init ==
    /\ allQuestions \in VariedRecordSets \cup LargeRecordSets
    /\ config = [Keyword |-> <<>>, Type |-> ""]
    /\ outcome = "idle"
    /\ results = <<>>
    /\ scored = 0
    /\ IdleScore /\ IdleClean
    /\ pc = "start"

Next == \E type \in RequestTypes, kw \in Keywords :
            searchQuestions([Keyword |-> kw, Type |-> type])

Spec == Init /\ [][Next]_vars

----------------------------------------------------------------------------
(* Properties of searchQuestions, checked under Spec *)

\* The records of the requested category, from the record set itself.
requestedRecords ==
    BagRestrict(allQuestions, {q \in DOMAIN allQuestions : q.Type = config.Type})

\* The candidates of the last call: the requested records as scored results.
requestedCandidates == scoredResults(requestedRecords, config)

\* The title of a result without the display decoration, i.e. the normalized
\* title cleanText(question.Title).
normalizedTitle(r) == SubSeq(r.Title, 2, Len(r.Title) - 1)

\* C1: a recognized type label whose category has no record yields an empty
\* result list and no error.
C1_EmptyCategoryReturnsEmpty ==
    (/\ outcome # "idle"
     /\ config.Type \in {"single_choice", "choice", "determine"}
     /\ DOMAIN requestedRecords = {})
    => (outcome = "returned" /\ results = <<>>)

C3_Ordered ==
    outcome = "returned"
    => \A i \in 1..(Len(results) - 1) :
           \/ results[i].Relevance > results[i + 1].Relevance
           \/ /\ results[i].Relevance = results[i + 1].Relevance
              /\ ByteLen(results[i].Title) <= ByteLen(results[i + 1].Title)

\* C3 witness: a returned list with a step down in relevance and a relevance tie
\* between titles of different length.
C3_Witness ==
    /\ outcome = "returned"
    /\ \E i \in 1..(Len(results) - 1) :
           results[i].Relevance > results[i + 1].Relevance
    /\ \E i \in 1..(Len(results) - 1) :
           /\ results[i].Relevance = results[i + 1].Relevance
           /\ ByteLen(results[i].Title) < ByteLen(results[i + 1].Title)

\* C4: ranking is deterministic: two calls with the same record set, type label
\* and keyword return the same results in the same order.
C4_Deterministic ==
    [][(outcome = "returned" /\ outcome' = "returned" /\ config' = config)
       => results' = results]_vars

\* C5: the relevance stored in each result is calculateRelevance of the
\* normalized title and the keyword; a normalized title equal to the keyword
\* gets 1.0 and one with the keyword as a proper prefix gets 0.95.
C5_ScoredOnNormalizedTitle ==
    outcome = "returned"
    => \A i \in 1..Len(results) :
           LET t == normalizedTitle(results[i])
               k == config.Keyword
           IN  /\ results[i].Relevance = calculateRelevance(t, k)
               /\ (k # <<>> /\ ToLower(t) = ToLower(k))
                  => results[i].Relevance = 1000000
               /\ (k # <<>> /\ ToLower(t) # ToLower(k)
                            /\ HasPrefix(ToLower(t), ToLower(k)))
                  => results[i].Relevance = 950000

\* C9: an unrecognized type label returns an error and a nil result list, and
\* no candidate is scored.
C9_InvalidSelection ==
    (outcome # "idle" /\ config.Type \notin {"single_choice", "choice", "determine"})
    => (outcome = "error" /\ results = <<>> /\ scored = 0)

\* C9 witness: the error is returned although the record set has single-choice
\* records and the keyword matches one of them.
C9_Witness ==
    /\ outcome = "error"
    /\ config.Keyword # <<>>
    /\ \E q \in DOMAIN allQuestions :
           /\ q.Type = "single_choice"
           /\ calculateRelevance(DisplayTitle(cleanText(q.Title)), config.Keyword) > 500000

\* C10: for an empty keyword and a recognized type label every record of the
\* category is returned exactly once with relevance 1.0, unfiltered and
\* uncapped, ordered by title length ascending.
C10_EmptyKeywordReturnsAll ==
    (/\ outcome # "idle"
     /\ config.Keyword = <<>>
     /\ config.Type \in {"single_choice", "choice", "determine"})
    => /\ outcome = "returned"
       /\ Len(results) = BagSize(requestedRecords)
       /\ BagOfSeq([i \in 1..Len(results) |-> normalizedTitle(results[i])])
              = [t \in {cleanText(q.Title) : q \in DOMAIN requestedRecords} |->
                    SumOver({q \in DOMAIN requestedRecords : cleanText(q.Title) = t},
                            requestedRecords)]
       /\ \A i \in 1..Len(results) : results[i].Relevance = 1000000
       /\ \A i \in 1..(Len(results) - 1) :
              ByteLen(results[i].Title) <= ByteLen(results[i + 1].Title)

----------------------------------------------------------------------------
(* Properties of calculateRelevance, checked under SpecScore *)

\* C6: when the keyword is a substring but not a prefix of the text, the score
\* is 0.9 if the character before the match is whitespace or punctuation and
\* 0.8 if it is neither.
C6_BoundaryScore ==
    LET t == ToLower(question)
        k == ToLower(keyword)
    IN  (pc = "scored" /\ k # <<>> /\ Contains(t, k) /\ ~HasPrefix(t, k))
        => LET before == t[FirstOccurrence(t, k) - 1]
           IN  relevance = IF IsSpace(before) \/ IsPunct(before) THEN 900000 ELSE 800000

\* Some whitespace-delimited token of the keyword is neither equal to nor a
\* substring of any whitespace-delimited token of the question.
SomeTokenMissing ==
    LET kws == Fields(ToLower(keyword))
        qws == Fields(ToLower(question))
    IN  \E i \in 1..Len(kws) : \A j \in 1..Len(qws) : ~Contains(qws[j], kws[i])

\* C7: if some token of the keyword is missing from every token of the text,
\* the score is 0.3, however many other tokens match.
C7_MissingTokenScore ==
    (pc = "scored" /\ keyword # <<>> /\ SomeTokenMissing) => relevance = 300000

\* C7 witness: a scored pair where one keyword token is missing and another is
\* a token of the question.
C7_Witness ==
    /\ pc = "scored"
    /\ SomeTokenMissing
    /\ LET kws == Fields(ToLower(keyword))
           qws == Fields(ToLower(question))
       IN  \E i \in 1..Len(kws) : \E j \in 1..Len(qws) : qws[j] = kws[i]

----------------------------------------------------------------------------
(* Property of cleanText, checked under SpecClean *)

\* C8: cleanText is idempotent: a second pass leaves the output of the first
\* unchanged, the output holding no noise substring and no outer whitespace.
C8_Idempotent ==
    pc = "twice"
    => /\ cleanedTwice = cleaned
       /\ \A n \in NoiseSubstrings : ~Contains(cleaned, n)
       /\ TrimSpace(cleaned) = cleaned

============================================================================
